---- MODULE Spec2Model ----
(***************************************************************************)
(* docfu: the document preparation pipeline (processDocuments), the        *)
(* commands that call it, and the watch loops that re-run it.              *)
(*                                                                         *)
(* Two layouts of processDocuments are in the repository and both are      *)
(* modelled, selected by the variable layout:                              *)
(*   "root"       processDocuments(source, root, options)                  *)
(*   "workspace"  processDocuments(source, workspace, dist, astroEngine)   *)
(*                                                                         *)
(* A path is a sequence of segments; "/" is <<>>.  A file's path ends in   *)
(* its stem and its extension: docs/guide.md is <<"docs","guide","md">>.   *)
(***************************************************************************)
EXTENDS Integers, Sequences, FiniteSets, TLC

\* ---------------------------------------------------------------- bounds
MaxRuns == 2

\* ----------------------------------------------------------------- paths
IsPrefix(p, q) == Len(p) <= Len(q) /\ SubSeq(q, 1, Len(p)) = p

\* path.dirname
Dirname(p) == IF Len(p) = 0 THEN p ELSE SubSeq(p, 1, Len(p) - 1)

\* path.relative(base, p) for p at or under base
Relative(base, p) == SubSeq(p, Len(base) + 1, Len(p))

\* normalizedSource.startsWith(normalizedRoot + sep): with root "/" the
\* prefix is "//", which no resolved path starts with
StartsWithDir(p, dir) == dir # <<>> /\ IsPrefix(dir, p) /\ p # dir

HOME == <<"home", "u">>
PROJ == <<"home", "u", "proj">>
DOCS == <<"home", "u", "proj", "docs">>
PKG  == <<"opt", "docfu">>

\* os.homedir()
homedir == HOME

\* the list of isDangerousSystemPath, layout "root"
DangerousRoot ==
  { <<>>, homedir, homedir \o <<"Documents">>, homedir \o <<"Desktop">>,
    homedir \o <<"Downloads">>, Dirname(homedir),
    <<"etc">>, <<"usr">>, <<"bin">>, <<"sbin">>, <<"var">>,
    <<"Applications">>, <<"System">>, <<"Library">> }

\* the list of isDangerousSystemPath, layout "workspace"
DangerousWorkspace ==
  { <<>>, homedir, homedir \o <<"Documents">>, homedir \o <<"Desktop">>,
    homedir \o <<"Downloads">> }

isDangerousSystemPath(lay, path) ==
  IF lay = "root" THEN path \in DangerousRoot ELSE path \in DangerousWorkspace

\* ------------------------------------------------------------ filesystem
\* An entry of the filesystem.  kind is "dir", "file" or "link"; target is
\* where a link points; syn is the syntax class of a document's content;
\* refs are the partial references a document holds.
Entry(p, k, t, s, r) == [path |-> p, kind |-> k, target |-> t, syn |-> s, refs |-> r]
Dir(p)        == Entry(p, "dir", <<>>, "none", {})
File(p)       == Entry(p, "file", <<>>, "none", {})
Doc(p, s, r)  == Entry(p, "file", <<>>, s, r)
Link(p, t)    == Entry(p, "link", t, "none", {})

\* fs.existsSync: a path exists when it, or something under it, is there
Exists(f, p) == \E e \in f : IsPrefix(p, e.path)

Under(f, p) == { e \in f : IsPrefix(p, e.path) }

\* what is the same everywhere: the system, the home directory, the
\* docfu installation and the node_modules of the working directory
BaseFs(wd) ==
  { File(<<"etc", "passwd">>),
    File(HOME \o <<"Documents", "cv", "pdf">>),
    File(PKG \o <<"node_modules", "astro", "js">>),
    File(PKG \o <<"docfu.example", "yml">>),
    File(wd \o <<"node_modules", "dep", "js">>) }

\* the documentation tree of the user, relative to the source directory
SourceTree ==
  { File(<<"docfu", "yml">>),
    File(<<"assets", "site", "css">>),
    File(<<"assets", "private", "key", "css">>),
    File(<<"components", "Card", "vue">>),
    File(<<"components", "ui", "Card", "vue">>),
    Doc(<<"README", "md">>, "plain", {}),
    Doc(<<"guide", "md">>, "markdoc", {<<"_partials", "note", "md">>}),
    Doc(<<"_partials", "note", "md">>, "markdoc", {}),
    File(<<"logo", "png">>),
    Doc(<<"drafts", "old", "md">>, "plain", {}),
    Doc(<<"drafts", "2019", "older", "md">>, "plain", {}),
    File(<<"api", "docfu", "yml">>),
    Doc(<<"api", "drafts", "wip", "md">>, "plain", {}),
    Doc(<<"api", "README", "md">>, "plain", {}),
    Doc(<<"api", "index", "markdown">>, "plain", {}),
    Doc(<<"tags", "markdoc">>, "markdoc", {}),
    Doc(<<"faq", "md">>, "markdoc", {<<"_partials", "note">>}) }

\* an exclude pattern that names a directory: its segments, and whether it
\* is written with a trailing slash ("drafts" or "assets/private/")
Pattern(d, s) == [dirs |-> d, slash |-> s]

\* the `exclude` list of the docfu.yml in directory dir of the source tree
ConfigExclude(dir) ==
  IF dir = <<>> THEN { Pattern(<<"drafts">>, FALSE), Pattern(<<"assets", "private">>, TRUE) }
  ELSE IF dir = <<"api">> THEN { Pattern(<<"drafts">>, FALSE) }
  ELSE {}

At(base, tree) == { [e EXCEPT !.path = base \o e.path] : e \in tree }

\* what an earlier build left in the target: a file and the node_modules link
Stale(tgt) ==
  { File(tgt \o <<"stale", "txt">>),
    Link(tgt \o <<"workspace", "node_modules">>, PKG \o <<"node_modules">>) }


\* ------------------------------------------------------------- the state
VARIABLES
  layout,            \* which processDocuments: "root" or "workspace"
  cwd,               \* process.cwd()
  source,            \* resolved source directory
  root,              \* resolved clean target: root ("root"), workspace ("workspace")
  engine,            \* astroEngine ("workspace" layout)
  fs,                \* the filesystem
  mutated,           \* the current run has changed the filesystem
  pc,                \* where the current run is
  result,            \* how processDocuments ended: "none", "true", "false", "throw", "exit1"
  exitCode,          \* the process exit status, -1 while running
  trace,             \* the phases the current run has executed, in order
  checked,           \* paths the current run has passed to isDangerousSystemPath
  deletes,           \* targets the current run has deleted recursively
  configError,       \* "thrown" once yaml.load has thrown in discover, else "none"
  declined,          \* the user answered no to the confirmation of this run
  unlinked,          \* links removed by a delete so far: the delete's target, where the link pointed
  runs,              \* runs started so far
  masterConfig,      \* result of discover()
  files,             \* readdir(source), in the order the loop visits it
  cursor,            \* index in files of the next entry to visit
  fileConversionMap, \* original relative path -> final relative path
  docs,              \* manifest docs, in push order
  discovered,        \* discoveredComponents and discoveredCss
  last,              \* what the current run has produced, once it has written its manifest
  prev               \* what the run before the current one had produced

pipeVars == << layout, cwd, source, root, engine, fs, mutated, pc, result, exitCode,
               trace, checked, deletes, configError, declined, unlinked, runs,
               masterConfig, files, cursor, fileConversionMap, docs, discovered,
               last, prev >>

inputVars == << layout, cwd, source, root, engine >>

\* per-run working state of the loop
loopVars == << files, cursor, fileConversionMap, docs >>

\* the long-running commands: `preview --watch`, `preview` and watch.js
VARIABLES
  loopKind,          \* "preview-watch", "preview-serve" or "watch"
  proc,              \* "running" or "exited"
  procExit,          \* exit status of the process, -1 while it runs
  signal,            \* the signal that ended the process, "none" otherwise
  watcher,           \* chokidar watcher: "none", "open" or "closed"
  server,            \* http-server child: "none", "running", "killed" or "dead"
  now,               \* the clock, in milliseconds
  armed,             \* the timers setTimeout has armed and that have not fired
  timeout,           \* `timeout` / `processTimeout`: id of the timer set last, 0 for none
  isRebuilding,      \* the flag of preview.js
  running,           \* pipeline runs in flight
  nEvents,           \* watcher events so far
  lastEvent,         \* time of the latest watcher event, -1 for none
  lastStart,         \* time the latest re-run started, -1 for none
  fired,             \* a timer of the latest burst has fired
  burstRuns          \* re-runs the timers of the latest burst have started

watchVars == << loopKind, proc, procExit, signal, watcher, server, now, armed, timeout,
                isRebuilding, running, nEvents, lastEvent, lastStart, fired, burstRuns >>

\* one document on its way through transformMarkdownSyntax, process and
\* mergeFrontmatterWithHierarchicalConfig
VARIABLES
  dop,               \* the function applied: "format", "import", "merge" or "none"
  dstep,             \* how far it has got
  filename,          \* the destination file name
  original,          \* the content as read from the source file
  transformed,       \* the content as rewritten so far
  format,            \* the format getTargetFormat has returned, "none" before
  decisions,         \* calls of getTargetFormat so far
  used,              \* names extractJSXComponents returns
  manual,            \* names extractExistingImports returns
  customNames,       \* names of options.customComponents
  imports,           \* the import statements process has generated
  defaults,          \* keys the frontmatter of the applicable docfu.yml files sets
  existing,          \* keys the frontmatter of the document sets
  fileSpecific,      \* keys the file's own entry of docfu.yml sets
  isHidden,          \* options.isHidden
  isUnlisted,        \* options.isUnlisted
  merged,            \* the frontmatter written, key by key
  blocks,            \* the file-keyed blocks of the docfu.yml files: directory and key
  applied,           \* the block getApplicable returns as fileSpecific
  node,              \* a node of the parsed document that carries a target
  rewritten,         \* the node as transformReadmeLinks leaves it
  indexSibling,      \* the extension of the index file next to the document, or "none"
  finalRelPath,      \* the document's final path relative to the destination
  title              \* the title of the document's docs entry

docVars == << dop, dstep, filename, original, transformed, format, decisions, used,
              manual, customNames, imports, defaults, existing, fileSpecific,
              isHidden, isUnlisted, merged, blocks, applied,
              node, rewritten, indexSibling, finalRelPath, title >>

\* a document without a node that carries a target
NoNode == [type |-> "none", path |-> <<>>, name |-> "", ext |-> "", suffix |-> ""]

\* fileSpecific = null
NoBlock == [dir |-> <<>>, key |-> <<>>]

vars == << pipeVars, watchVars, docVars >>

\* README link token, JSX element, Markdoc tag, heading badge and first-level
\* heading of a content
NoContent == [readme |-> "none", jsx |-> FALSE, tag |-> FALSE, badge |-> "none", h1 |-> FALSE]

\* no document is being converted
DocIdle ==
  /\ dop = "none"
  /\ dstep = "start"
  /\ filename = <<>>
  /\ original = NoContent
  /\ transformed = NoContent
  /\ format = "none"
  /\ decisions = 0
  /\ used = {}
  /\ manual = {}
  /\ customNames = {}
  /\ imports = {}
  /\ defaults = {}
  /\ existing = {}
  /\ fileSpecific = {}
  /\ isHidden = FALSE
  /\ isUnlisted = FALSE
  /\ merged = <<>>
  /\ applied = NoBlock
  /\ rewritten = NoNode
  /\ finalRelPath = <<>>
  /\ title = "none"
  /\ indexSibling = "none"
  /\ blocks = {}
  /\ node = NoNode

\* no long-running command is in progress
WatchIdle ==
  /\ loopKind = "none"
  /\ proc = "exited"
  /\ procExit = -1
  /\ signal = "none"
  /\ watcher = "none"
  /\ server = "none"
  /\ now = 0
  /\ armed = {}
  /\ timeout = 0
  /\ isRebuilding = FALSE
  /\ running = 0
  /\ nEvents = 0
  /\ lastEvent = -1
  /\ lastStart = -1
  /\ fired = FALSE
  /\ burstRuns = 0

\* ------------------------------------------------------- derived paths
workspaceDir == IF layout = "root" THEN root \o <<"workspace">> ELSE root
destination  == IF layout = "root" THEN root \o <<"workspace", "src", "content", "docs">>
                ELSE root
distDir      == IF layout = "root" THEN root \o <<"dist">> ELSE Dirname(root) \o <<"dist">>

NoConfig == [exclude |-> {}, assets |-> "assets", components |-> "components", found |-> FALSE]

\* no run has written a manifest
NoRun == [ok |-> FALSE, files |-> <<>>, out |-> {}, docs |-> <<>>, config |-> NoConfig,
          discovered |-> {}]

\* ------------------------------------------------------------ the inputs
CwdChoices    == { PROJ, <<"home">> }
SourceChoices == { DOCS, PROJ, PROJ \o <<"gone">> }
TargetChoices ==
  { PROJ \o <<".docfu">>, DOCS \o <<".docfu">>, DOCS \o <<"out">>, DOCS, PROJ,
    HOME, <<>>, <<"home">> }
EngineChoices(tgt) == { Dirname(tgt) \o <<"engine">>, HOME }

InitFs(wd, src, tgt, stale) ==
  BaseFs(wd)
    \cup (IF src \in {DOCS, PROJ} THEN At(src, SourceTree) ELSE {})
    \cup (IF stale THEN Stale(tgt) ELSE {})

Init ==
  /\ WatchIdle
  /\ DocIdle
  /\ layout \in {"root", "workspace"}
  /\ cwd \in CwdChoices
  /\ source \in SourceChoices
  /\ root \in TargetChoices
  /\ engine \in EngineChoices(root)
  /\ (layout = "root" => engine = Dirname(root) \o <<"engine">>)
  /\ \E stale \in BOOLEAN : fs = InitFs(cwd, source, root, stale)
  /\ mutated = FALSE
  /\ pc = "preflight"
  /\ result = "none"
  /\ exitCode = -1
  /\ trace = <<>>
  /\ checked = {}
  /\ deletes = {}
  /\ configError = "none"
  /\ declined = FALSE
  /\ unlinked = {}
  /\ runs = 1
  /\ masterConfig = NoConfig
  /\ files = <<>>
  /\ cursor = 1
  /\ fileConversionMap = {}
  /\ docs = <<>>
  /\ discovered = {}
  /\ last = NoRun
  /\ prev = NoRun

\* processDocuments ends: control returns to the command
\* the phases in the order processDocuments sets them: the phase that
\* follows phase p (the fix-up closes the loop phase; only the "workspace"
\* layout sets up an engine directory)
NextPhaseAssetsFirst(p) ==
  CASE p = "preflight"  -> "clean"
    [] p = "clean"      -> "assets"
    [] p = "assets"     -> "discover"
    [] p = "discover"   -> IF layout = "root" THEN "config" ELSE "engine"
    [] p = "engine"     -> "config"
    [] p = "config"     -> "components"
    [] p = "components" -> "loop"
    [] p = "loop"       -> "manifest"

NextPhase(p) ==
  CASE p = "preflight"  -> "clean"
    [] p = "clean"      -> "discover"
    [] p = "discover"   -> "assets"
    [] p = "assets"     -> IF layout = "root" THEN "config" ELSE "engine"
    [] p = "engine"     -> "config"
    [] p = "config"     -> "components"
    [] p = "components" -> "loop"
    [] p = "loop"       -> "manifest"

Return(r) == /\ result' = r
             /\ pc' = "command"

\* ------------------------------------------------- preflight safety checks
\* the checks of the "root" layout, in the order of the code; "ok" when all pass
PreflightRoot ==
  IF ~Exists(fs, source) THEN "false"
  ELSE IF isDangerousSystemPath("root", root) THEN "exit1"
  ELSE IF root = source THEN "exit1"
  ELSE IF StartsWithDir(source, root) THEN "exit1"
  ELSE "ok"

\* the checks of the "workspace" layout
PreflightWorkspace ==
  IF ~Exists(fs, source) THEN "false"
  ELSE IF isDangerousSystemPath("workspace", destination) THEN "exit1"
  ELSE IF isDangerousSystemPath("workspace", distDir) THEN "exit1"
  ELSE "ok"

Preflight ==
  /\ pc = "preflight"
  /\ trace' = Append(trace, "preflight")
  /\ LET verdict == IF layout = "root" THEN PreflightRoot ELSE PreflightWorkspace
     IN /\ checked' = IF ~Exists(fs, source) THEN checked
                      ELSE IF layout = "root" THEN checked \cup {root}
                      ELSE IF isDangerousSystemPath("workspace", destination)
                           THEN checked \cup {destination}
                           ELSE checked \cup {destination, distDir}
        /\ IF verdict = "ok"
           THEN /\ pc' = NextPhase(pc)
                /\ UNCHANGED result
           ELSE Return(verdict)
  /\ UNCHANGED << watchVars, docVars, inputVars, last, prev, fs, mutated, exitCode, deletes,
                  configError, declined, unlinked, runs, masterConfig, loopVars, discovered >>

\* -------------------------------------------------------- destructive clean
\* del's check under force: false: never the working directory, never
\* something outside it
SafeCheck(wd, p) == p # wd /\ IsPrefix(wd, p)

\* a delete that walks through the links it meets
DeleteTreeFollowingLinks(f, p) ==
  f \ (Under(f, p) \cup UNION { Under(f, l.target) : l \in { x \in Under(f, p) : x.kind = "link" } })

\* del with followSymbolicLinks: false: the target and everything in it go;
\* a link in it is unlinked, what it points to is not visited
DeleteTree(f, p) == f \ Under(f, p)

\* isSafeDocfuPath: relative(cwd, path) starts with ".docfu/"
isSafeDocfuPath(wd, p) == IsPrefix(wd \o <<".docfu">>, p) /\ p # wd \o <<".docfu">>

\* the links a recursive delete of p removes
LinksIn(f, p) == { [target |-> p, to |-> e.target] : e \in { x \in Under(f, p) : x.kind = "link" } }

\* whether the clean asks the user first: confirm() answers true at once
\* under CI (and under options.yes in the "root" layout); the "workspace"
\* layout does not ask for a path inside .docfu/
NeedsConfirm(yes) ==
  /\ ~yes
  /\ layout = "workspace" => ~isSafeDocfuPath(cwd, destination)

Clean ==
  /\ pc = "clean"
  /\ trace' = Append(trace, "clean")
  /\ UNCHANGED << watchVars, docVars, inputVars, last, prev, exitCode, checked, configError, runs,
                  masterConfig, loopVars, discovered >>
  /\ IF ~Exists(fs, root)
     THEN /\ pc' = NextPhase(pc)
          /\ UNCHANGED << fs, result, deletes, declined, unlinked >>
     ELSE \E yes \in BOOLEAN, answer \in BOOLEAN :
            IF NeedsConfirm(yes) /\ ~answer
            THEN \* declined: "root" returns false, "workspace" exits
                 /\ Return(IF layout = "root" THEN "false" ELSE "exit1")
                 /\ declined' = TRUE
                 /\ UNCHANGED << fs, deletes, unlinked >>
            ELSE IF ~SafeCheck(cwd, root)
            THEN \* del throws: "root" lets it propagate, "workspace" exits
                 /\ Return(IF layout = "root" THEN "throw" ELSE "exit1")
                 /\ UNCHANGED << fs, deletes, declined, unlinked >>
            ELSE /\ fs' = DeleteTree(fs, root)
                 /\ deletes' = deletes \cup {root}
                 /\ unlinked' = unlinked \cup LinksIn(fs, root)
                 /\ pc' = NextPhase(pc)
                 /\ UNCHANGED << result, declined >>
  /\ mutated' = (mutated \/ fs' # fs)

\* ------------------------------------------------ config cascade discovery
\* glob('**/docfu.yml', {cwd: source, dot: false}): the configuration files
ConfigFiles(f) ==
  { e \in Under(f, source) :
      /\ e.kind = "file"
      /\ Len(e.path) >= 2
      /\ SubSeq(e.path, Len(e.path) - 1, Len(e.path)) = <<"docfu", "yml">>
      /\ \A i \in Len(source) + 1 .. Len(e.path) : e.path[i] # ".docfu" }

\* master.exclude: the patterns of every configuration file, those of a
\* nested file prefixed with its directory (join(dir, pattern))
MasterExclude(configs) ==
  UNION { { Pattern(Relative(source, Dirname(Dirname(c.path))) \o pat.dirs, pat.slash) :
              pat \in ConfigExclude(Relative(source, Dirname(Dirname(c.path)))) } :
          c \in configs }

\* mkdir(destination), then discover(source); yaml.load throws on a
\* malformed file and nothing catches it
Discover ==
  /\ pc = "discover"
  /\ trace' = Append(trace, "discover")
  /\ fs' = fs \cup {Dir(destination)}
  /\ \E parses \in BOOLEAN :
       IF ConfigFiles(fs') # {} /\ ~parses
       THEN \* yaml.load throws and nothing catches it
            /\ Return("throw")
            /\ configError' = "thrown"
            /\ UNCHANGED masterConfig
       ELSE /\ configError' = configError
            /\ masterConfig' =
                 IF ConfigFiles(fs') = {} THEN NoConfig
                 ELSE [NoConfig EXCEPT !.exclude = MasterExclude(ConfigFiles(fs')),
                                       !.found = TRUE]
            /\ pc' = NextPhase(pc)
            /\ UNCHANGED result
  /\ UNCHANGED << watchVars, docVars, inputVars, last, prev, exitCode, checked, deletes, declined,
                  unlinked, runs, loopVars, discovered >>
  /\ mutated' = (mutated \/ fs' # fs)

\* ------------------------------------------------------- static asset copy
Copy(f, from, to) == { [e EXCEPT !.path = to \o Relative(from, e.path)] : e \in Under(f, from) }

assets == source \o <<masterConfig.assets>>
workspaceAssets ==
  IF layout = "root" THEN workspaceDir \o <<"public", masterConfig.assets>>
  ELSE workspaceDir \o <<masterConfig.assets>>

CopyAssets ==
  /\ pc = "assets"
  /\ trace' = Append(trace, "assets")
  /\ fs' = IF Exists(fs, assets) THEN fs \cup Copy(fs, assets, workspaceAssets) ELSE fs
  /\ pc' = NextPhase(pc)
  /\ UNCHANGED << watchVars, docVars, inputVars, last, prev, result, exitCode, checked, deletes,
                  configError, declined, unlinked, runs, masterConfig, loopVars,
                  discovered >>
  /\ mutated' = (mutated \/ fs' # fs)

\* --------------------------------------- engine setup ("workspace" layout)
\* deleteAsync(engine) without any check of its own, mkdir, the copies, and
\* the node_modules link, whose failure is only warned about
setupAstroEngine ==
  /\ pc = "engine"
  /\ layout = "workspace"
  /\ trace' = Append(trace, "engine")
  /\ UNCHANGED << watchVars, docVars, inputVars, last, prev, exitCode, checked, configError,
                  declined, runs, masterConfig, loopVars, discovered >>
  /\ IF Exists(fs, engine) /\ ~SafeCheck(cwd, engine)
     THEN /\ Return("throw")
          /\ UNCHANGED << fs, deletes, unlinked >>
     ELSE /\ deletes' = IF Exists(fs, engine) THEN deletes \cup {engine} ELSE deletes
          /\ unlinked' = unlinked \cup LinksIn(fs, engine)
          /\ \E linked \in BOOLEAN :
               LET cleaned == DeleteTree(fs, engine) \cup {Dir(engine)}
                   copied  == IF Exists(cleaned, workspaceAssets)
                              THEN cleaned \cup Copy(cleaned, workspaceAssets,
                                                     engine \o <<"public", masterConfig.assets>>)
                              ELSE cleaned
                   nm      == cwd \o <<"node_modules">>
               IN fs' = IF Exists(copied, nm) /\ linked
                        THEN copied \cup {Link(engine \o <<"node_modules">>, nm)}
                        ELSE copied
          /\ pc' = NextPhase(pc)
          /\ UNCHANGED result
  /\ mutated' = (mutated \/ fs' # fs)

\* ----------------------------------------------- config save and readdir
configPath == IF layout = "root" THEN root \o <<"config", "yml">>
              ELSE destination \o <<"docfu", "yml">>

RECURSIVE SetToSeq(_)
SetToSeq(S) == IF S = {} THEN <<>>
               ELSE LET x == CHOOSE y \in S : TRUE IN <<x>> \o SetToSeq(S \ {x})

Reverse(q) == [i \in 1 .. Len(q) |-> q[Len(q) + 1 - i]]

\* the config is written, then readdir(source, {recursive: true}) lists
\* the tree as it is now; a link is listed and is no file.  The order of
\* the listing is the directory's: the model takes one order and its
\* reverse, so that any two files are met in both orders
SaveConfig ==
  /\ pc = "config"
  /\ fs' = fs \cup {File(configPath)}
  /\ \E rev \in BOOLEAN :
       LET listing == SetToSeq({ e \in Under(fs', source) : e.kind \in {"file", "link"} })
       IN files' = IF rev THEN Reverse(listing) ELSE listing
  /\ cursor' = 1
  /\ pc' = NextPhase(pc)
  /\ UNCHANGED << watchVars, docVars, inputVars, last, prev, result, exitCode, trace, checked,
                  deletes, configError, declined, unlinked, runs, masterConfig, fileConversionMap,
                  docs, discovered >>
  /\ mutated' = (mutated \/ fs' # fs)

\* ----------------------------------------------- component / CSS discovery
componentsDir == masterConfig.components

\* the descriptor discoverComponents pushes for a file: its name without
\* extension, and its path inside the components directory as .astro
ComponentDescriptor(e) ==
  LET inDir == Relative(source \o <<componentsDir>>, e.path)
  IN [kind |-> "component", name |-> inDir[Len(inDir) - 1],
      path |-> SubSeq(inDir, 1, Len(inDir) - 1) \o <<"astro">>]

\* the descriptor discoverCss pushes: the path relative to the source
CssDescriptor(e) ==
  [kind |-> "css", name |-> e.path[Len(e.path) - 1], path |-> Relative(source, e.path)]

\* discoverComponents(join(source, componentsDir)) and discoverCss(assets):
\* one descriptor for every file of the components directory, one for
\* every .css of the assets
DiscoverComponentsCss ==
  /\ pc = "components"
  /\ trace' = Append(trace, "components-css")
  /\ discovered' =
       { ComponentDescriptor(e) :
           e \in { x \in Under(fs, source \o <<componentsDir>>) : x.kind = "file" } }
       \cup
       { CssDescriptor(e) :
           e \in { x \in Under(fs, assets) : x.kind = "file" /\ x.path[Len(x.path)] = "css" } }
  /\ pc' = NextPhase(pc)
  /\ UNCHANGED << watchVars, docVars, inputVars, last, prev, fs, mutated, result, exitCode,
                  checked, deletes, configError, declined, unlinked, runs, masterConfig, loopVars >>


\* ------------------------------------------------------------ per-file loop
\* CONVERTIBLE_MARKDOWN_EXTENSIONS and ALL_MARKDOWN_EXTENSIONS
CONVERTIBLE_MARKDOWN_EXTENSIONS ==
  {"md", "markdown", "mdown", "mkdn", "mkd", "mdwn", "mdtxt", "mdtext", "text", "txt"}
ALL_MARKDOWN_EXTENSIONS == CONVERTIBLE_MARKDOWN_EXTENSIONS \cup {"mdx", "mdoc", "markdoc"}

Ext(p)  == p[Len(p)]
Stem(p) == p[Len(p) - 1]
WithExt(p, x) == SubSeq(p, 1, Len(p) - 1) \o <<x>>

\* relativePath.startsWith(dir + '/')
InDir(rel, d) == Len(rel) >= 3 /\ rel[1] = d

\* minimatch of a file's relative path against one pattern of master.exclude.
\* A pattern with a trailing slash gets "**" appended and matches every
\* file beneath the directory.  A pattern without any slash is tried as
\* "<name>/**", which matches beneath the top-level directory of that name
\* (and against the basename, which no file of the trees equals).  Any other
\* pattern must match the whole path, which a file beneath it does not.
Matches(rel, pat) ==
  IF pat.slash THEN IsPrefix(pat.dirs, rel) /\ Len(rel) >= Len(pat.dirs) + 2
  ELSE IF Len(pat.dirs) = 1 THEN rel[1] = pat.dirs[1] /\ Len(rel) >= 3
  ELSE rel = pat.dirs

\* isExcludedFile: a pattern without a slash matches everything beneath the
\* directory of that name
isExcludedFile(rel) ==
  \E pat \in masterConfig.exclude : Matches(rel, pat)

\* getTargetFormat(filename, content)
getTargetFormat(p, syn) ==
  IF Ext(p) \notin CONVERTIBLE_MARKDOWN_EXTENSIONS THEN "unchanged"
  ELSE IF \E i \in 1 .. Len(p) : p[i] = "node_modules" THEN "markdown"
  ELSE IF syn = "jsx" THEN "mdx"
  ELSE IF syn = "markdoc" THEN "markdoc"
  ELSE "markdown"

\* convertExtension(filename, targetType)
convertExtension(p, targetType) ==
  CASE targetType = "mdx"      -> WithExt(p, "mdx")
    [] targetType = "markdoc"  -> WithExt(p, "mdoc")
    [] targetType = "markdown" -> WithExt(p, "md")
    [] OTHER                   -> p

\* getTargetExtension(originalFilename, targetFormat)
getTargetExtension(p, targetFormat) ==
  IF Ext(p) \notin CONVERTIBLE_MARKDOWN_EXTENSIONS THEN p
  ELSE convertExtension(p, targetFormat)

\* String.prototype.toLowerCase on the segments the trees use
Lower(x) == CASE x = "README" -> "readme"
              [] x = "Readme" -> "readme"
              [] x = "ReadMe" -> "readme"
              [] x = "MD"     -> "md"
              [] x = "Card"   -> "card"
              [] OTHER        -> x

\* the slug: the final relative path without a trailing .md, .mdx or .mdoc,
\* then without a trailing "/index", in lower case; any other extension stays
Slug(finalRel) ==
  LET bare == IF Ext(finalRel) \in {"md", "mdx", "mdoc"}
              THEN SubSeq(finalRel, 1, Len(finalRel) - 1) ELSE finalRel
      cut  == IF Len(bare) >= 2 /\ bare[Len(bare)] = "index"
              THEN SubSeq(bare, 1, Len(bare) - 1) ELSE bare
  IN [i \in 1 .. Len(cut) |-> Lower(cut[i])]

\* writeFile / copyFile: the entry at that path is replaced
Put(f, e) == { x \in f : x.path # e.path } \cup {e}

\* Map.prototype.set
MapSet(m, k, v) == { x \in m : x.from # k } \cup {[from |-> k, to |-> v]}
MapHas(m, k) == \E x \in m : x.from = k
MapGet(m, k) == (CHOOSE x \in m : x.from = k).to

\* the loop skips: no file, docfu.yml, the .docfu directory ("root"
\* layout), the assets directory, an excluded path
Skipped(e) ==
  LET rel == Relative(source, e.path)
  IN \/ e.kind # "file"
     \/ (Stem(rel) = "docfu" /\ Ext(rel) = "yml")
     \/ (layout = "root" /\ InDir(rel, ".docfu"))
     \/ InDir(rel, masterConfig.assets)
     \/ isExcludedFile(rel)

isComponentFile(rel) == InDir(rel, componentsDir)

\* where a component file is copied to
ComponentDestination(rel) ==
  IF layout = "root"
  THEN workspaceDir \o <<"src", "components">>
         \o WithExt(Relative(<<componentsDir>>, rel), "astro")
  ELSE destination \o WithExt(rel, "astro")

\* README, readme or Readme with .md, .mdx or .mdoc and no index.md,
\* index.mdx or index.mdoc next to it in the source becomes index
RenameReadme(destinationFile, indexExists) ==
  IF /\ Ext(destinationFile) \in {"md", "mdx", "mdoc"}
     /\ Stem(destinationFile) \in {"readme", "README", "Readme"}
     /\ ~indexExists
  THEN Dirname(Dirname(destinationFile)) \o <<"index", Ext(destinationFile)>>
  ELSE destinationFile

workingDestinationFile(e) ==
  LET rel == Relative(source, e.path)
      sourceDir == Dirname(Dirname(e.path))
      indexExists == \E x \in {"md", "mdx", "mdoc"} :
                        Exists(fs, sourceDir \o <<"index", x>>)
  IN RenameReadme(destination \o rel, indexExists)

finalDestinationFile(e) ==
  getTargetExtension(workingDestinationFile(e),
                     getTargetFormat(workingDestinationFile(e), e.syn))

\* one iteration of `for (const f of files)`; readdir fixes no order
ProcessFile ==
  /\ pc = "loop"
  /\ cursor <= Len(files)
  /\ LET e   == files[cursor]
         rel == Relative(source, e.path)
       IN /\ cursor' = cursor + 1
          /\ trace' = IF cursor = 1 THEN Append(trace, "loop") ELSE trace
          /\ IF Skipped(e)
             THEN UNCHANGED << fs, fileConversionMap, docs >>
             ELSE IF isComponentFile(rel)
             THEN /\ fs' = Put(fs, [e EXCEPT !.path = ComponentDestination(rel)])
                  /\ UNCHANGED << fileConversionMap, docs >>
             ELSE IF Ext(rel) \in ALL_MARKDOWN_EXTENSIONS
             THEN LET final    == finalDestinationFile(e)
                      finalRel == Relative(destination, final)
                  IN /\ fileConversionMap' = MapSet(fileConversionMap, rel, finalRel)
                     /\ docs' = Append(docs, [slug |-> Slug(finalRel), source |-> e.path,
                                              workspace |-> final])
                     /\ fs' = Put(fs, [e EXCEPT !.path = final])
             ELSE /\ fs' = Put(fs, [e EXCEPT !.path = destination \o rel])
                  /\ UNCHANGED << fileConversionMap, docs >>
  /\ UNCHANGED << watchVars, docVars, inputVars, last, prev, pc, result, exitCode, checked, deletes,
                  configError, declined, unlinked, runs, masterConfig, files, discovered >>
  /\ mutated' = (mutated \/ fs' # fs)

\* ------------------------------------------------ partial-reference fix-up
\* updatePartialReferences(destination, fileConversionMap): in every .mdoc
\* file of the destination a reference that is a key of the map is replaced
\* by the mapped path
Rewrite(m, refs) == { IF MapHas(m, r) THEN MapGet(m, r) ELSE r : r \in refs }

updatePartialReferences(f, dest, m) ==
  { IF IsPrefix(dest, e.path) /\ e.kind = "file" /\ Ext(e.path) = "mdoc"
    THEN [e EXCEPT !.refs = Rewrite(m, e.refs)]
    ELSE e : e \in f }

\* a loop that may be left before its last entry
LoopDoneAnytime == TRUE

\* `for (const f of files)` has run out of entries
LoopDone == cursor > Len(files)

\* the call after the loop: every file of the listing has been visited
FixUp ==
  /\ pc = "loop"
  /\ LoopDone
  /\ trace' = (IF cursor = 1 THEN Append(trace, "loop") ELSE trace) \o <<"fixup">>
  /\ fs' = updatePartialReferences(fs, destination, fileConversionMap)
  /\ pc' = NextPhase(pc)
  /\ UNCHANGED << watchVars, docVars, inputVars, last, prev, result, exitCode, checked, deletes,
                  configError, declined, unlinked, runs, masterConfig, loopVars,
                  discovered >>
  /\ mutated' = (mutated \/ fs' # fs)

\* -------------------------------------------------------- manifest emission
\* a manifest that a later run writes under a name of its own
manifestPathPerRun ==
  (IF layout = "root" THEN root ELSE destination)
    \o (IF runs = 1 THEN <<"manifest", "json">> ELSE <<"manifest", "next", "json">>)

manifestPath == IF layout = "root" THEN root \o <<"manifest", "json">>
                ELSE destination \o <<"manifest", "json">>

WriteManifest ==
  /\ pc = "manifest"
  /\ trace' = Append(trace, "manifest")
  /\ fs' = Put(fs, File(manifestPath))
  /\ last' = [ok |-> TRUE, files |-> files, out |-> Under(fs', root), docs |-> docs,
              config |-> masterConfig, discovered |-> discovered]
  /\ Return("true")
  /\ UNCHANGED << watchVars, docVars, inputVars, prev, exitCode, checked, deletes, configError,
                  declined, unlinked, runs, masterConfig, loopVars, discovered >>
  /\ mutated' = (mutated \/ fs' # fs)

\* an fs call of a phase after the clean rejects: nothing in
\* processDocuments catches it
IoError ==
  /\ pc \in {"discover", "assets", "engine", "config", "components", "loop", "manifest"}
  /\ Return("throw")
  /\ UNCHANGED << watchVars, docVars, inputVars, last, prev, fs, mutated, exitCode, trace,
                  checked, deletes, configError, declined, unlinked, runs, masterConfig, loopVars,
                  discovered >>

\* ------------------------------------------------------------- the command
\* prepareCommand / buildCommand after processDocuments: false and a throw
\* end in process.exit(1); build goes on to set the workspace up, link
\* node_modules and run astro
Command ==
  /\ pc = "command"
  /\ pc' = "done"
  /\ \E cmd \in {"prepare", "build"} :
       IF result # "true"
       THEN /\ exitCode' = 1
            /\ UNCHANGED fs
       ELSE IF cmd = "prepare"
       THEN /\ exitCode' = 0
            /\ UNCHANGED fs
       ELSE \E built \in BOOLEAN :
              /\ exitCode' = IF built THEN 0 ELSE 1
              /\ fs' = IF layout = "root"
                       THEN LET nm == workspaceDir \o <<"node_modules">>
                                project == Put(fs, File(workspaceDir \o <<"package", "json">>))
                            IN IF Exists(project, nm) THEN project
                               ELSE project \cup {Link(nm, PKG \o <<"node_modules">>)}
                       ELSE fs
  /\ UNCHANGED << watchVars, docVars, inputVars, last, prev, result, trace, checked, deletes,
                  configError, declined, unlinked, runs, masterConfig, loopVars,
                  discovered >>
  /\ mutated' = (mutated \/ fs' # fs)

\* the command is run again on the same inputs
NextRun ==
  /\ pc = "done"
  /\ runs < MaxRuns
  /\ runs' = runs + 1
  /\ pc' = "preflight"
  /\ result' = "none"
  /\ exitCode' = -1
  /\ trace' = <<>>
  /\ checked' = {}
  /\ deletes' = {}
  /\ configError' = "none"
  /\ declined' = FALSE
  /\ mutated' = FALSE
  /\ masterConfig' = NoConfig
  /\ files' = <<>>
  /\ cursor' = 1
  /\ fileConversionMap' = {}
  /\ docs' = <<>>
  /\ discovered' = {}
  /\ prev' = last
  /\ last' = NoRun
  /\ UNCHANGED << watchVars, docVars, inputVars, fs, unlinked >>

Next ==
  \/ Preflight
  \/ Clean
  \/ Discover
  \/ CopyAssets
  \/ setupAstroEngine
  \/ SaveConfig
  \/ DiscoverComponentsCss
  \/ ProcessFile
  \/ FixUp
  \/ WriteManifest
  \/ IoError
  \/ Command
  \/ NextRun

Spec == Init /\ [][Next]_vars

\* ================================================== the long-running commands
\* setTimeout(..., 500) of debouncedRebuild and debouncedProcess
DebounceMs == 500

\* the clock advances in steps of TickMs up to MaxTime; a command sees at
\* most MaxEvents watcher events and has at most MaxInFlight runs in flight
TickMs == 250
MaxTime == 2000
MaxEvents == 4
MaxInFlight == 2

\* the pipeline state while a long-running command is modelled: the first
\* build has succeeded
PipeIdle ==
  /\ layout = "root"
  /\ cwd = PROJ
  /\ source = DOCS
  /\ root = PROJ \o <<".docfu">>
  /\ engine = PROJ \o <<"engine">>
  /\ fs = InitFs(PROJ, DOCS, PROJ \o <<".docfu">>, FALSE)
  /\ mutated = FALSE
  /\ pc = "done"
  /\ result = "true"
  /\ exitCode = 0
  /\ trace = <<>>
  /\ checked = {}
  /\ deletes = {}
  /\ configError = "none"
  /\ declined = FALSE
  /\ unlinked = {}
  /\ runs = 1
  /\ masterConfig = NoConfig
  /\ files = <<>>
  /\ cursor = 1
  /\ fileConversionMap = {}
  /\ docs = <<>>
  /\ discovered = {}
  /\ last = NoRun
  /\ prev = NoRun

\* the state once the command has built once, spawned its server and
\* opened its watcher: all of it happens in one turn of the event loop
WatchInit ==
  /\ PipeIdle
  /\ DocIdle
  /\ loopKind \in {"preview-watch", "preview-serve", "watch"}
  /\ proc = "running"
  /\ procExit = -1
  /\ signal = "none"
  /\ watcher = IF loopKind = "preview-serve" THEN "none" ELSE "open"
  /\ server = IF loopKind = "watch" THEN "none" ELSE "running"
  /\ now = 0
  /\ armed = {}
  /\ timeout = 0
  /\ isRebuilding = FALSE
  /\ running = 0
  /\ nEvents = 0
  /\ lastEvent = -1
  /\ lastStart = -1
  /\ fired = FALSE
  /\ burstRuns = 0

\* a debounce that leaves the earlier timer armed
KeepTimeout(a, id) == a

\* clearTimeout(id)
clearTimeout(a, id) == { t \in a : t.id # id }

\* process.exit(code), or the death of the process by a signal
Exit(code) ==
  /\ proc' = "exited"
  /\ procExit' = code

\* watcher.on('add' | 'change' | 'unlink'): debouncedRebuild / debouncedProcess
ChangeEvent ==
  /\ proc = "running"
  /\ watcher = "open"
  /\ nEvents < MaxEvents
  /\ nEvents' = nEvents + 1
  /\ timeout' = nEvents + 1
  /\ armed' = clearTimeout(armed, timeout) \cup {[id |-> nEvents + 1, due |-> now + DebounceMs]}
  /\ lastEvent' = now
  /\ fired' = IF armed = {} THEN FALSE ELSE fired
  /\ burstRuns' = IF armed = {} THEN 0 ELSE burstRuns
  /\ UNCHANGED << pipeVars, docVars, loopKind, proc, procExit, signal, watcher, server, now,
                  isRebuilding, running, lastStart >>

\* the callback of setTimeout: preview.js returns at once while a rebuild is
\* in flight; watch.js starts processDocuments whatever is in flight
TimerFires ==
  /\ proc = "running"
  /\ \E t \in armed :
       /\ t.due <= now
       /\ armed' = armed \ {t}
       /\ LET starts == loopKind = "watch" \/ ~isRebuilding
          IN /\ starts => running < MaxInFlight
             /\ running' = IF starts THEN running + 1 ELSE running
             /\ isRebuilding' = IF loopKind = "preview-watch" THEN TRUE ELSE isRebuilding
             /\ lastStart' = IF starts THEN now ELSE lastStart
             /\ burstRuns' = IF starts THEN burstRuns + 1 ELSE burstRuns
  /\ fired' = TRUE
  /\ UNCHANGED << pipeVars, docVars, loopKind, proc, procExit, signal, watcher, server, now,
                  timeout, nEvents, lastEvent >>

\* a run in flight ends.  preview.js: buildCommand exits the process with
\* status 1 when the run fails.  watch.js: a false result is dropped, a
\* rejection is unhandled in the timer callback and ends the process
RunEnds ==
  /\ proc = "running"
  /\ running > 0
  /\ running' = running - 1
  /\ \E outcome \in {"true", "false", "throw"} :
       IF loopKind = "preview-watch"
       THEN IF outcome = "true"
            THEN /\ isRebuilding' = FALSE
                 /\ UNCHANGED << proc, procExit >>
            ELSE /\ Exit(1)
                 /\ UNCHANGED isRebuilding
       ELSE IF outcome = "throw"
            THEN /\ Exit(1)
                 /\ UNCHANGED isRebuilding
            ELSE UNCHANGED << proc, procExit, isRebuilding >>
  /\ UNCHANGED << pipeVars, docVars, loopKind, signal, watcher, server, now, armed, timeout,
                  nEvents, lastEvent, lastStart, fired, burstRuns >>

\* time passes; a timer that is due fires first
Tick ==
  /\ proc = "running"
  /\ now + TickMs <= MaxTime
  /\ \A t \in armed : t.due > now
  /\ now' = now + TickMs
  /\ UNCHANGED << pipeVars, docVars, loopKind, proc, procExit, signal, watcher, server, armed,
                  timeout, isRebuilding, running, nEvents, lastEvent, lastStart, fired,
                  burstRuns >>

\* SIGINT reaches the process.  `preview --watch` and watch.js have a
\* handler.  `preview` has none: the process dies, and its http-server child
\* dies with it only when the signal went to the whole process group
Sigint ==
  /\ proc = "running"
  /\ signal' = "SIGINT"
  /\ IF loopKind = "preview-watch"
     THEN /\ watcher' = "closed"
          /\ server' = IF server = "running" THEN "killed" ELSE server
          /\ Exit(0)
     ELSE IF loopKind = "watch"
     THEN /\ watcher' = "closed"
          /\ Exit(0)
          /\ UNCHANGED server
     ELSE /\ \E group \in BOOLEAN :
               server' = IF group /\ server = "running" THEN "dead" ELSE server
          /\ Exit(130)
          /\ UNCHANGED watcher
  /\ UNCHANGED << pipeVars, docVars, loopKind, now, armed, timeout, isRebuilding, running, nEvents,
                  lastEvent, lastStart, fired, burstRuns >>

\* SIGTERM reaches the process: only `preview --watch` has a handler
Sigterm ==
  /\ proc = "running"
  /\ signal' = "SIGTERM"
  /\ IF loopKind = "preview-watch"
     THEN /\ watcher' = "closed"
          /\ server' = IF server = "running" THEN "killed" ELSE server
          /\ Exit(0)
     ELSE /\ Exit(143)
          /\ UNCHANGED << watcher, server >>
  /\ UNCHANGED << pipeVars, docVars, loopKind, now, armed, timeout, isRebuilding, running, nEvents,
                  lastEvent, lastStart, fired, burstRuns >>

\* the http-server child ends by itself: `preview` waits for its 'close'
\* event and ends with it, `preview --watch` does not listen
ServerCloses ==
  /\ proc = "running"
  /\ server = "running"
  /\ server' = "dead"
  /\ IF loopKind = "preview-serve"
     THEN \E code \in {0, 1} : Exit(code)
     ELSE UNCHANGED << proc, procExit >>
  /\ UNCHANGED << pipeVars, docVars, loopKind, signal, watcher, now, armed, timeout, isRebuilding,
                  running, nEvents, lastEvent, lastStart, fired, burstRuns >>

WatchNext ==
  \/ ChangeEvent
  \/ TimerFires
  \/ RunEnds
  \/ Tick
  \/ Sigint
  \/ Sigterm
  \/ ServerCloses

WatchSpec == WatchInit /\ [][WatchNext]_vars

\* ============================================= the conversion of one document
\* the contents and destination names a document is drawn from
ContentChoices ==
  [readme : {"none", "link", "code"}, jsx : BOOLEAN, tag : BOOLEAN, badge : {"none", "plain"},
   h1 : {FALSE}]

FilenameChoices ==
  { <<"guide", "md">>, <<"guide", "markdown">>, <<"index", "md">>, <<"notes", "txt">>,
    <<"page", "mdx">>, <<"ref", "mdoc">>, <<"node_modules", "pkg", "index", "md">> }

\* transformReadmeLinks(content): a content without a README token comes
\* back as it is; any other is parsed and written out again by
\* remark-stringify, which rewrites the links and escapes the bracket of a
\* heading badge (":badge\[")
transformReadmeLinks(c) ==
  IF c.readme = "none" THEN c
  ELSE [c EXCEPT !.readme = IF c.readme = "link" THEN "index" ELSE c.readme,
                 !.badge  = IF c.badge = "plain" THEN "escaped" ELSE c.badge]

\* usesMarkdocSyntax: MARKDOC_TAG or HEADING_BADGE, which wants ":badge["
usesMarkdocSyntax(c) == c.tag \/ c.badge = "plain"

\* detectSyntax(content)
detectSyntax(c) == IF c.jsx THEN "jsx" ELSE IF usesMarkdocSyntax(c) THEN "markdoc" ELSE "plain"

\* the converter transformMarkdownSyntax runs for a format and a destination
Converter(p, f) ==
  IF f \in {"mdx", "markdoc"} THEN f
  ELSE IF Ext(p) = "mdoc" THEN "markdoc"
  ELSE IF Ext(p) = "mdx" THEN "mdx"
  ELSE "none"

\* mdoc(): badges, plain or escaped, become Markdoc tags
mdoc(c) == IF c.badge = "none" THEN c ELSE [c EXCEPT !.badge = "none", !.tag = TRUE]

\* let transformed = await transformReadmeLinks(content)
ReadmeLinks ==
  /\ dop = "format"
  /\ dstep = "start"
  /\ transformed' = transformReadmeLinks(original)
  /\ dstep' = "linked"
  /\ UNCHANGED << pipeVars, watchVars, blocks, applied, node, rewritten, indexSibling,
                  finalRelPath, title, dop, filename, original, format, decisions, used,
                  manual, customNames, imports, defaults, existing, fileSpecific,
                  isHidden, isUnlisted, merged >>

\* const {format, shouldConvert} = getTargetFormat(destination, transformed)
DecideFormat ==
  /\ dop = "format"
  /\ dstep = "linked"
  /\ format' = getTargetFormat(filename, detectSyntax(transformed))
  /\ decisions' = decisions + 1
  /\ dstep' = "decided"
  /\ UNCHANGED << pipeVars, watchVars, blocks, applied, node, rewritten, indexSibling,
                  finalRelPath, title, dop, filename, original, transformed, used,
                  manual, customNames, imports, defaults, existing, fileSpecific,
                  isHidden, isUnlisted, merged >>

\* the switch on the format, and the branches on the destination's extension
Convert ==
  /\ dop = "format"
  /\ dstep = "decided"
  /\ transformed' = IF Converter(filename, format) = "markdoc" THEN mdoc(transformed)
                    ELSE transformed
  /\ dstep' = "converted"
  /\ UNCHANGED << pipeVars, watchVars, blocks, applied, node, rewritten, indexSibling,
                  finalRelPath, title, dop, filename, original, format, decisions, used,
                  manual, customNames, imports, defaults, existing, fileSpecific,
                  isHidden, isUnlisted, merged >>

\* ---------------------------------------------------------- auto-import
\* the component names a document may use; DOCFU_COMPONENTS is ['Fence']
ComponentNames == {"Card", "Fence", "Tabs"}
DOCFU_COMPONENTS == {"Fence"}

\* process(filename, content, options): one import statement for each custom
\* name, one for each DocFu name, one for all the other names together
process(components, alreadyImported, custom) ==
  LET needsImport == components \ alreadyImported
      customOnes  == needsImport \cap custom
      docfu       == needsImport \cap DOCFU_COMPONENTS
      starlight   == needsImport \ (custom \cup DOCFU_COMPONENTS)
  IN { [names |-> {n}, from |-> "custom"] : n \in customOnes }
       \cup { [names |-> {n}, from |-> "docfu"] : n \in docfu }
       \cup (IF starlight = {} THEN {} ELSE {[names |-> starlight, from |-> "starlight"]})

Process ==
  /\ dop = "import"
  /\ dstep = "start"
  /\ imports' = process(used, manual, customNames)
  /\ dstep' = "imported"
  /\ UNCHANGED << pipeVars, watchVars, blocks, applied, node, rewritten, indexSibling,
                  finalRelPath, title, dop, filename, original, transformed, format,
                  decisions, used, manual, customNames, defaults, existing, fileSpecific,
                  isHidden, isUnlisted, merged >>

\* ---------------------------------------------------------- frontmatter
\* the keys a layer may set, and the keys a frontmatter has: a key inside
\* an object is the path to it
LayerKeys ==
  { <<"title">>, <<"pagefind">>, <<"sidebar", "badge", "text">>,
    <<"sidebar", "badge", "variant">> }
FrontmatterKeys == LayerKeys \cup { <<"sidebar", "hidden">> }

\* the object of a layer: each key it sets holds the layer's name
Layer(keys, name) == [k \in FrontmatterKeys |-> IF k \in keys THEN name ELSE "absent"]

\* obj has something at path p
Has(obj, p) == \E k \in FrontmatterKeys : IsPrefix(p, k) /\ obj[k] # "absent"

\* mergeFrontmatter(existing, defaults): every key of the first argument
\* goes over the second; where both hold an object the two are spread one
\* level deep
mergeFrontmatter(first, second) ==
  [k \in FrontmatterKeys |->
     IF ~Has(first, <<k[1]>>) THEN second[k]
     ELSE IF Len(k) >= 2 /\ Has(second, <<k[1]>>)
     THEN IF Has(first, SubSeq(k, 1, 2)) THEN first[k] ELSE second[k]
     ELSE first[k]]

\* mergeFrontmatterWithHierarchicalConfig(path, content, options)
mergeFrontmatterWithHierarchicalConfig(dflt, exist, fileSpec, hidden, unlisted) ==
  LET m1 == mergeFrontmatter(Layer(dflt, "defaults"), Layer(exist, "existing"))
      m2 == IF fileSpec # {} THEN mergeFrontmatter(m1, Layer(fileSpec, "fileSpecific")) ELSE m1
      m3 == IF hidden
            THEN [m2 EXCEPT ![<<"pagefind">>] = "forced", ![<<"sidebar", "hidden">>] = "forced"]
            ELSE m2
      m4 == IF unlisted THEN [m3 EXCEPT ![<<"pagefind">>] = "forced"] ELSE m3
  IN IF m4[<<"title">>] = "absent" THEN [m4 EXCEPT ![<<"title">>] = "getTitle"] ELSE m4

\* updateContentFrontmatter(content, frontmatterObj, {removeH1: true}): the
\* frontmatter is replaced and the first line that reads "# ..." is cut
updateContentFrontmatter(c) == [c EXCEPT !.h1 = FALSE]

MergeFrontmatter ==
  /\ dop = "merge"
  /\ dstep = "start"
  /\ transformed' = updateContentFrontmatter(original)
  /\ merged' = mergeFrontmatterWithHierarchicalConfig(defaults, existing, fileSpecific,
                                                      isHidden, isUnlisted)
  /\ dstep' = "merged"
  /\ UNCHANGED << pipeVars, watchVars, blocks, applied, node, rewritten, indexSibling,
                  finalRelPath, title, dop, filename, original, format,
                  decisions, used, manual, customNames, imports, defaults, existing,
                  fileSpecific, isHidden, isUnlisted >>

\* ------------------------------------------------- links to README files
\* the nodes of a document that carry a target: the directory part of the
\* target, the file name, its extension and what follows it (an anchor)
NodeChoices ==
  [type   : {"link", "definition", "html", "inlineCode"},
   path   : {<<>>, <<"docs">>},
   name   : {"README", "readme", "Readme", "ReadMe", "guide"},
   ext    : {"md", "MD", "mdx", "mdoc", "markdown"},
   suffix : {"", "#usage"}]

\* the test of the first line of transformReadmeLinks, on the raw text,
\* with the flag i: /(readme|README|Readme)\.(md|mdx|mdoc)/i
ReadmeToken(n) == Lower(n.name) = "readme" /\ Lower(n.ext) \in {"md", "mdx", "mdoc"}

\* visit(tree, 'link') and visit(tree, 'definition'): two replacements
\* anchored at the end of the url, without the flag i
visitLink(n) ==
  IF n.name \in {"readme", "README", "Readme"} /\ n.ext \in {"md", "mdx", "mdoc"} /\ n.suffix = ""
  THEN [n EXCEPT !.name = "index"]
  ELSE n

\* visit(tree, 'html'): one replacement inside href="...", flags g and i,
\* any text may follow the extension
visitHtml(n) ==
  IF Lower(n.name) = "readme" /\ Lower(n.ext) \in {"md", "mdx", "mdoc"}
  THEN [n EXCEPT !.name = "index"]
  ELSE n

\* transformReadmeLinks on the document that holds the node n
transformNode(n) ==
  IF ~ReadmeToken(n) THEN n
  ELSE IF n.type \in {"link", "definition"} THEN visitLink(n)
  ELSE IF n.type = "html" THEN visitHtml(n)
  ELSE n

TransformReadmeLinks ==
  /\ dop \in {"links", "resolve"}
  /\ dstep = "start"
  /\ rewritten' = transformNode(node)
  /\ dstep' = "linked"
  /\ UNCHANGED << pipeVars, watchVars, blocks, applied, node, indexSibling, finalRelPath,
                  title, dop, filename, original,
                  transformed, format, decisions, used, manual, customNames, imports,
                  defaults, existing, fileSpecific, isHidden, isUnlisted, merged >>

\* --------------------------------------- a document a link points at
\* the documents linked to, and the index files that may lie next to them
ReadmeChoices == { <<"README", "md">>, <<"readme", "mdx">>, <<"Readme", "mdoc">>, <<"guide", "md">> }
SiblingChoices == {"none", "md", "mdx", "markdown"}

\* a link to the file p, written in a document of the same directory
LinkTo(p) ==
  [type |-> "link", path |-> <<>>, name |-> Stem(p), ext |-> Ext(p), suffix |-> ""]

\* the loop body of processDocuments for the document: the README rename,
\* then the extension of the format transformMarkdownSyntax returns
PlaceDocument ==
  /\ dop = "resolve"
  /\ dstep = "linked"
  /\ LET working == RenameReadme(filename, indexSibling \in {"md", "mdx", "mdoc"})
         fmt     == getTargetFormat(working, detectSyntax(transformReadmeLinks(original)))
     IN finalRelPath' = getTargetExtension(working, fmt)
  /\ dstep' = "placed"
  /\ UNCHANGED << pipeVars, watchVars, blocks, applied, node, rewritten, indexSibling,
                  title, dop, filename, original, transformed, format, decisions, used,
                  manual, customNames, imports, defaults, existing, fileSpecific,
                  isHidden, isUnlisted, merged >>

\* docs.push({slug, title, files}): the title comes from the frontmatter
\* of the content as read from the source, else from getTitle
PushDocs ==
  /\ dop = "merge"
  /\ dstep = "merged"
  /\ title' = IF <<"title">> \in existing THEN "existing" ELSE "getTitle"
  /\ dstep' = "listed"
  /\ UNCHANGED << pipeVars, watchVars, blocks, applied, node, rewritten, indexSibling,
                  finalRelPath, dop, filename, original, transformed, format, decisions,
                  used, manual, customNames, imports, defaults, existing, fileSpecific,
                  isHidden, isUnlisted, merged >>

\* ------------------------------------------- file-specific configuration
\* the directories that hold a docfu.yml, in the order discover sorts them
\* (by depth), the files looked up and the blocks the files may hold
ConfigDirs == << <<>>, <<"api">> >>
ConfiguredFiles ==
  { <<"index", "md">>, <<"guide", "md">>, <<"api", "index", "md">>, <<"api", "guide", "md">> }
BlockChoices ==
  { [dir |-> <<>>, key |-> <<"index", "md">>],
    [dir |-> <<>>, key |-> <<"guide", "md">>],
    [dir |-> <<>>, key |-> <<"api", "index", "md">>],
    [dir |-> <<"api">>, key |-> <<"index", "md">>],
    [dir |-> <<"api">>, key |-> <<"guide", "md">>] }

\* one turn of the loop of getApplicable over the configs: a configuration
\* of an ancestor directory gives its block keyed by the bare file name,
\* else its block keyed by the path relative to it
ApplicableStep(found, bl, file, dir) ==
  LET fileName == SubSeq(file, Len(file) - 1, Len(file))
      fileDir  == SubSeq(file, 1, Len(file) - 2)
  IN IF ~IsPrefix(dir, fileDir) THEN found
     ELSE IF [dir |-> dir, key |-> fileName] \in bl THEN [dir |-> dir, key |-> fileName]
     ELSE IF [dir |-> dir, key |-> Relative(dir, file)] \in bl
     THEN [dir |-> dir, key |-> Relative(dir, file)]
     ELSE found

\* getApplicable(configs, source, file).fileSpecific
getApplicable(bl, file) ==
  ApplicableStep(ApplicableStep(NoBlock, bl, file, ConfigDirs[1]), bl, file, ConfigDirs[2])

GetApplicable ==
  /\ dop = "applicable"
  /\ dstep = "start"
  /\ applied' = getApplicable(blocks, filename)
  /\ dstep' = "applied"
  /\ UNCHANGED << pipeVars, watchVars, blocks, node, rewritten, indexSibling, finalRelPath,
                  title, dop, filename, original, transformed,
                  format, decisions, used, manual, customNames, imports, defaults,
                  existing, fileSpecific, isHidden, isUnlisted, merged >>

\* ------------------------------------------------------ the specification
DocInit ==
  /\ PipeIdle
  /\ WatchIdle
  /\ dop \in {"format", "import", "merge", "applicable", "links", "resolve"}
  /\ dstep = "start"
  /\ format = "none"
  /\ decisions = 0
  /\ imports = {}
  /\ merged = <<>>
  /\ applied = NoBlock
  /\ rewritten = NoNode
  /\ finalRelPath = <<>>
  /\ title = "none"
  /\ IF dop = "applicable"
     THEN blocks \in SUBSET BlockChoices
     ELSE blocks = {}
  /\ IF dop = "resolve"
     THEN indexSibling \in SiblingChoices
     ELSE indexSibling = "none"
  /\ IF dop = "format"
     THEN filename \in FilenameChoices /\ original \in ContentChoices
     ELSE IF dop = "resolve"
     THEN /\ filename \in ReadmeChoices
          /\ original \in { c \in ContentChoices : c.readme = "none" /\ c.badge = "none" }
     ELSE IF dop = "applicable"
     THEN filename \in ConfiguredFiles /\ original = NoContent
     ELSE /\ filename = <<>>
          /\ original \in { [NoContent EXCEPT !.h1 = b] :
                              b \in IF dop = "merge" THEN BOOLEAN ELSE {FALSE} }
  /\ transformed = original
  /\ IF dop = "links"
     THEN node \in NodeChoices
     ELSE IF dop = "resolve"
     THEN node = LinkTo(filename)
     ELSE node = NoNode
  /\ IF dop = "import"
     THEN /\ used \in SUBSET ComponentNames
          /\ manual \in SUBSET ComponentNames
          /\ customNames \in SUBSET ComponentNames
     ELSE used = {} /\ manual = {} /\ customNames = {}
  /\ IF dop = "merge"
     THEN /\ defaults \in SUBSET LayerKeys
          /\ existing \in SUBSET LayerKeys
          /\ fileSpecific \in SUBSET LayerKeys
          /\ isHidden \in BOOLEAN
          /\ isUnlisted \in BOOLEAN
     ELSE /\ defaults = {} /\ existing = {} /\ fileSpecific = {}
          /\ isHidden = FALSE /\ isUnlisted = FALSE

DocNext ==
  \/ GetApplicable
  \/ TransformReadmeLinks
  \/ PlaceDocument
  \/ PushDocs
  \/ ReadmeLinks
  \/ DecideFormat
  \/ Convert
  \/ Process
  \/ MergeFrontmatter

DocSpec == DocInit /\ [][DocNext]_vars

\* ====================================================== properties: pipeline
\* two paths overlap when they are equal or one is an ancestor of the other
Overlaps(a, b) == IsPrefix(a, b) \/ IsPrefix(b, a)

\* C1: whenever a run has carried out the destructive clean, its target is
\* not the source directory, not an ancestor of it and not a descendant of it.
C1_CleanTargetApartFromSource == root \in deletes => ~Overlaps(root, source)

\* C2: a link that a clean removed was removed as a link only: whatever it
\* pointed to outside the deleted target is still in the filesystem, run
\* after run.
C2_LinkTargetsSurvive ==
  \A u \in unlinked :
    \A e \in BaseFs(cwd) :
      (IsPrefix(u.to, e.path) /\ ~IsPrefix(u.target, e.path)) => e \in fs

C2_Witness ==
  /\ runs >= 2
  /\ pc = "done"
  /\ result = "true"
  /\ \E u \in unlinked : \E e \in BaseFs(cwd) : IsPrefix(u.to, e.path) /\ ~IsPrefix(u.target, e.path)

\* C3: a run whose source directory is missing, whose clean target is a
\* system-critical path, or whose clean target equals or overlaps the source,
\* deletes nothing, leaves the filesystem as it found it and ends non-zero.
C3_PreflightFailureAborts ==
  (/\ trace # <<>>
   /\ \/ ~Exists(fs, source)
      \/ isDangerousSystemPath(layout, root)
      \/ Overlaps(root, source))
  => /\ ~mutated
     /\ deletes = {}
     /\ pc = "done" => exitCode = 1

\* C4: every recursive delete of a run was preceded by the critical-path
\* check on its own target, and no deleted target is a critical path.
C4_EveryDeleteChecked ==
  \A d \in deletes : d \in checked /\ ~isDangerousSystemPath(layout, d)

\* the phases a run has entered, the engine set-up of the "workspace"
\* layout left out
Named(t) == SelectSeq(t, LAMBDA x : x # "engine")

IsSeqPrefix(a, b) == Len(a) <= Len(b) /\ \A k \in 1..Len(a) : a[k] = b[k]

PhaseOrder ==
  << "preflight", "clean", "discover", "assets", "components-css", "loop", "fixup", "manifest" >>

ClaimedPhaseOrder ==
  << "preflight", "clean", "assets", "discover", "components-css", "loop", "fixup", "manifest" >>

Failed == result \in {"false", "throw", "exit1"}

\* C9: a run enters each phase at most once, in the order preflight, clean,
\* config discovery, asset copy, component/CSS discovery, per-file loop,
\* fix-up, manifest; a run that failed ends with a non-zero status.
C9_PhasesInOrder ==
  /\ IsSeqPrefix(Named(trace), PhaseOrder)
  /\ (pc = "done" /\ Failed) => exitCode = 1

\* C9 as stated: the asset copy comes before the config discovery.
C9_PhasesInClaimedOrder ==
  /\ IsSeqPrefix(Named(trace), ClaimedPhaseOrder)
  /\ (pc = "done" /\ Failed) => exitCode = 1

C9_Witness == pc = "done" /\ Named(trace) = PhaseOrder /\ exitCode = 0

\* the content files the loop has to write: the markdown entries of the
\* listing that it does not skip and that are not components
ContentFiles ==
  { files[k] : k \in { n \in 1..Len(files) :
      /\ ~Skipped(files[n])
      /\ ~isComponentFile(Relative(source, files[n].path))
      /\ Ext(Relative(source, files[n].path)) \in ALL_MARKDOWN_EXTENSIONS } }

\* C10: once the fix-up has started, the loop has visited every entry, and
\* every content file is in the conversion map and at its final destination.
C10_FixUpAfterLoop ==
  "fixup" \in { trace[k] : k \in 1..Len(trace) } =>
    /\ cursor > Len(files)
    /\ \A e \in ContentFiles :
         /\ MapHas(fileConversionMap, Relative(source, e.path))
         /\ Exists(fs, finalDestinationFile(e))

C10_Witness ==
  /\ "fixup" \in { trace[k] : k \in 1..Len(trace) }
  /\ Cardinality(ContentFiles) >= 2
  /\ \E e \in fs : IsPrefix(destination, e.path) /\ e.refs # {} /\ e.refs \subseteq { m.to : m \in fileConversionMap }

\* what a run that failed fatally hands back: false for a missing source,
\* process.exit(1) for a critical target, a rejection for a failed call
FatalResults == {"false", "exit1", "throw"}

\* C11: a run whose confirmation the user declined has deleted and written
\* nothing, and neither its result nor its exit status is one that a fatal
\* failure produces.
C11_DeclineDistinguishable ==
  declined =>
    /\ ~mutated
    /\ deletes = {}
    /\ result \notin FatalResults
    /\ pc = "done" => exitCode # 1

\* C12: no run is ended by a configuration file that fails to parse: the
\* failure stays inside discover and the run goes on.
C12_ParseFailureIsolated == ~(configError = "thrown" /\ result = "throw")

\* the files of the source tree that a pattern of master.exclude matches
ExcludedSources ==
  { e \in Under(fs, source) : e.kind = "file" /\ isExcludedFile(Relative(source, e.path)) }

\* the places the pipeline writes a source file to: the asset copy, the
\* component copy, the plain copy, the converted document
OutputsOf(e) ==
  LET rel == Relative(source, e.path)
  IN { destination \o rel, finalDestinationFile(e), ComponentDestination(rel) }
       \cup (IF InDir(rel, masterConfig.assets)
             THEN { workspaceAssets \o Relative(<<masterConfig.assets>>, rel) } ELSE {})

\* the manifest names the file: in docs, in components or in css
ListedInManifest(e) ==
  LET rel == Relative(source, e.path)
  IN \/ \E k \in 1 .. Len(docs) : docs[k].source = e.path
     \/ /\ InDir(rel, componentsDir)
        /\ ComponentDescriptor(e) \in discovered
     \/ /\ InDir(rel, masterConfig.assets)
        /\ Ext(rel) = "css"
        /\ CssDescriptor(e) \in discovered

\* C13: a source file that an exclude pattern matches has no copy and no
\* converted form in the output, and the manifest does not name it.
C13_ExcludedNeverOutput ==
  \A e \in ExcludedSources :
    /\ \A o \in OutputsOf(e) : o # e.path => \A x \in fs : x.path # o
    /\ ~ListedInManifest(e)

\* the directories that the exclude lists of the configuration files name
ExcludedDirectories ==
  UNION { { Dirname(Dirname(c.path)) \o pat.dirs :
              pat \in ConfigExclude(Relative(source, Dirname(Dirname(c.path)))) } :
          c \in ConfigFiles(fs) }

\* C14: once the configuration is discovered, every file beneath a directory
\* that an exclude list names, in the root docfu.yml or in a nested one, is
\* excluded: it has no output and no entry in docs.
C14_ExcludedDirectoryRecursive ==
  masterConfig.found =>
    \A dir \in ExcludedDirectories :
      \A e \in { x \in Under(fs, dir) : x.kind = "file" } :
        /\ isExcludedFile(Relative(source, e.path))
        /\ \A o \in OutputsOf(e) : o # e.path => \A x \in fs : x.path # o
        /\ \A k \in 1 .. Len(docs) : docs[k].source # e.path

\* README, readme or Readme with any supported extension
IsReadme(p) == Stem(p) \in {"readme", "README", "Readme"} /\ Ext(p) \in ALL_MARKDOWN_EXTENSIONS

\* another content file of the same directory is written as index.*
HasIndexSibling(e) ==
  \E x \in ContentFiles :
    /\ x # e
    /\ Dirname(Dirname(x.path)) = Dirname(Dirname(e.path))
    /\ Stem(x.path) = "index"

\* C15: after the loop, a README-family file is at index.<ext> exactly when
\* no index.* is written to the same destination directory, and no other
\* document is written over it.
C15_ReadmeIndexIffNoSibling ==
  "fixup" \in { trace[k] : k \in 1..Len(trace) } =>
    \A k \in 1..Len(docs) :
      IsReadme(docs[k].source) =>
        /\ Stem(docs[k].workspace) = "index"
             <=> ~HasIndexSibling(CHOOSE e \in ContentFiles : e.path = docs[k].source)
        /\ \A j \in 1..Len(docs) : j # k => docs[j].workspace # docs[k].workspace

\* C16: after the loop every content file has exactly one docs entry, and
\* its slug is the final relative path in lower case, without its format
\* extension and without a trailing /index segment.
C16_OneEntryOneSlug ==
  "fixup" \in { trace[k] : k \in 1..Len(trace) } =>
    \A e \in ContentFiles :
      /\ Cardinality({ k \in 1..Len(docs) : docs[k].source = e.path }) = 1
      /\ \A k \in 1..Len(docs) :
           docs[k].source = e.path =>
             LET finalRel == Relative(destination, docs[k].workspace)
                 bare == SubSeq(finalRel, 1, Len(finalRel) - 1)
                 cut  == IF Len(bare) >= 2 /\ bare[Len(bare)] = "index"
                         THEN SubSeq(bare, 1, Len(bare) - 1) ELSE bare
             IN /\ finalRel = Relative(destination, finalDestinationFile(e))
                /\ docs[k].slug = [i \in 1 .. Len(cut) |-> Lower(cut[i])]

RefersTo(r, p) == r = p \/ r = SubSeq(p, 1, Len(p) - 1)

\* C22: after the fix-up, in every .mdoc document of the destination a
\* reference to a partial whose final path differs from its original one,
\* written with or without the extension, is the partial's final path.
C22_PartialReferencesFinal ==
  "fixup" \in { trace[k] : k \in 1..Len(trace) } =>
    \A e \in { x \in Under(fs, destination) : x.kind = "file" /\ Ext(x.path) = "mdoc" } :
      \A r \in e.refs :
        \A m \in fileConversionMap :
          (m.from # m.to /\ RefersTo(r, m.from)) => r = m.to

\* C23: the components discovered hold at most one descriptor for a name.
C23_OneDescriptorPerName ==
  \A c, d \in { x \in discovered : x.kind = "component" } : c.name = d.name => c = d

\* C27: within one run no two source files are written to the same
\* destination path.
C27_NoSharedDestination ==
  \A i, j \in 1 .. Len(docs) :
    docs[i].source # docs[j].source => docs[i].workspace # docs[j].workspace

\* ================================================= properties: watch loops
\* C5: in a watch loop at most one pipeline run is in flight at any moment.
C5_OneRunInFlight == running <= 1

C7_BurstStartsOneRerun ==
  fired => (burstRuns = 1 /\ lastStart >= lastEvent + DebounceMs)

\* C8: a process that SIGINT has ended has closed its watcher and stopped
\* its HTTP server.
C8_InterruptReleases ==
  (proc = "exited" /\ signal = "SIGINT") => (watcher # "open" /\ server # "running")

\* C26: no change is lost: in a live loop with no debounce timer pending,
\* the last change event has been followed by the start of a run.
C26_NoChangeLost ==
  (proc = "running" /\ watcher = "open" /\ armed = {} /\ lastEvent >= 0) =>
    lastStart >= lastEvent

\* C28: a run that fails leaves the watch loop alive: a watching process
\* that no signal has reached is running, and its in-flight flag is clear
\* whenever no run is in flight.
C28_FailedRerunKeepsLoop ==
  (loopKind \in {"preview-watch", "watch"} /\ signal = "none") =>
    /\ proc = "running"
    /\ running = 0 => ~isRebuilding

\* ==================================================== properties: documents
\* C18: once the format of a document is decided, it has been decided by one
\* call, and it is the format that its original content gives.
C18_FormatFromOriginal ==
  (dop = "format" /\ dstep \in {"decided", "converted"}) =>
    /\ decisions = 1
    /\ format = getTargetFormat(filename, detectSyntax(original))

\* C19: every name the document uses and does not import itself is named by
\* exactly one generated import statement, and a name it imports itself by
\* none.
C19_OneImportPerName ==
  (dop = "import" /\ dstep = "imported") =>
    \A n \in used :
      Cardinality({ st \in imports : n \in st.names }) = (IF n \in manual THEN 0 ELSE 1)

\* C20: every key of the frontmatter written holds the value of the highest
\* layer that sets it (defaults, then the document, then the file's entry,
\* then the forced fields), and the title is made up only when no layer sets
\* one.
C20_FrontmatterPrecedence ==
  (dop = "merge" /\ dstep = "merged") =>
    \A k \in FrontmatterKeys :
      merged[k] =
        IF k = <<"pagefind">> /\ (isHidden \/ isUnlisted) THEN "forced"
        ELSE IF k = <<"sidebar", "hidden">> THEN (IF isHidden THEN "forced" ELSE "absent")
        ELSE IF k \in fileSpecific THEN "fileSpecific"
        ELSE IF k \in existing THEN "existing"
        ELSE IF k \in defaults THEN "defaults"
        ELSE IF k = <<"title">> THEN "getTitle"
        ELSE "absent"

\* C21: the first-level heading is cut from the body only when the title
\* written was made from it; a document whose own frontmatter has a title
\* gets no made-up title and keeps its heading.
C21_HeadingCutOnlyForSynthesizedTitle ==
  (dop = "merge" /\ dstep = "merged") =>
    /\ (original.h1 /\ ~transformed.h1) => merged[<<"title">>] = "getTitle"
    /\ <<"title">> \in existing =>
         merged[<<"title">>] # "getTitle" /\ transformed.h1 = original.h1

\* C24: the block returned for a file is keyed for that file, and it is the
\* block of the nearest configuration file above it keyed by the file's
\* path relative to that file, when there is one.
C24_FileSpecificIsOwnBlock ==
  (dop = "applicable" /\ dstep = "applied") =>
    LET fileDir == SubSeq(filename, 1, Len(filename) - 2)
        nearest == IF IsPrefix(ConfigDirs[2], fileDir) THEN ConfigDirs[2] ELSE ConfigDirs[1]
        own     == [dir |-> nearest, key |-> Relative(nearest, filename)]
    IN /\ applied # NoBlock => applied.dir \o applied.key = filename
       /\ own \in blocks => applied = own

\* C25: a link, a reference definition or a raw anchor outside code whose
\* target ends in a README name, in any case and with any of the
\* extensions md, mdx and mdoc, is rewritten to index with the same
\* extension.
C25_ReadmeTargetsRewritten ==
  (/\ dop = "links"
   /\ dstep = "linked"
   /\ node.type \in {"link", "definition", "html"}
   /\ Lower(node.name) = "readme"
   /\ Lower(node.ext) \in {"md", "mdx", "mdoc"}
   /\ node.suffix = "")
    => rewritten = [node EXCEPT !.name = "index"]

\* C29: a link that was rewritten from a README to an index path names the
\* file written for the README it pointed at.
C29_RewrittenLinkResolves ==
  (dop = "resolve" /\ dstep = "placed" /\ rewritten # node) =>
    <<rewritten.name, rewritten.ext>> = finalRelPath

\* C30: the title of a document's docs entry is the title of the frontmatter
\* written to its output file.
C30_ManifestTitleIsOutputTitle ==
  (dop = "merge" /\ dstep = "listed") => title = merged[<<"title">>]

====
